---- MODULE Spec2Model ----
(***************************************************************************)
(* Model of add-to-steam.py: the script that appends one shortcut record   *)
(* to Steam's shortcuts.vdf and downloads five artwork files.              *)
(*                                                                         *)
(* Byte strings are sequences of numbers 0..255.  A 32-bit unsigned value  *)
(* is a pair <<hi, lo>> of 16-bit halves (value = hi * 65536 + lo).        *)
(***************************************************************************)
EXTENDS Integers, Sequences, FiniteSets, TLC

\* ------------------------------------------------------------------------
\* Bounds
\* ------------------------------------------------------------------------

\* Number of invocations of the script started in one behaviour.
MaxRuns == 2

\* The two slots in which invocations run (possibly at the same time).
Procs == {1, 2}

\* ------------------------------------------------------------------------
\* Literals of the script
\* ------------------------------------------------------------------------

\* "Minecraft Splitscreen"
APPNAME == <<77, 105, 110, 101, 99, 114, 97, 102, 116, 32, 83, 112, 108, 105, 116, 115, 99, 114, 101, 101, 110>>

\* "/.local/share/PollyMC/minecraftSplitscreen.sh"
PollyScript == <<47, 46, 108, 111, 99, 97, 108, 47, 115, 104, 97, 114, 101, 47, 80, 111, 108, 108, 121, 77, 67, 47, 109, 105, 110, 101, 99, 114, 97, 102, 116, 83, 112, 108, 105, 116, 115, 99, 114, 101, 101, 110, 46, 115, 104>>

\* "/.local/share/PrismLauncher/minecraftSplitscreen.sh"
PrismScript == <<47, 46, 108, 111, 99, 97, 108, 47, 115, 104, 97, 114, 101, 47, 80, 114, 105, 115, 109, 76, 97, 117, 110, 99, 104, 101, 114, 47, 109, 105, 110, 101, 99, 114, 97, 102, 116, 83, 112, 108, 105, 116, 115, 99, 114, 101, 101, 110, 46, 115, 104>>

\* "/.local/share/PollyMC"
PollyDir == <<47, 46, 108, 111, 99, 97, 108, 47, 115, 104, 97, 114, 101, 47, 80, 111, 108, 108, 121, 77, 67>>

\* "/.steam/steam/userdata"
UserdataDir == <<47, 46, 115, 116, 101, 97, 109, 47, 115, 116, 101, 97, 109, 47, 117, 115, 101, 114, 100, 97, 116, 97>>

\* "/config"
ConfigName == <<47, 99, 111, 110, 102, 105, 103>>

\* "/grid/"
GridName == <<47, 103, 114, 105, 100, 47>>

\* "_icon.ico"
IconName == <<95, 105, 99, 111, 110, 46, 105, 99, 111>>

\* "shortcuts", "appid", "appname", "exe", "StartDir", "icon"
KeyShortcuts == <<115, 104, 111, 114, 116, 99, 117, 116, 115>>
KeyAppid == <<97, 112, 112, 105, 100>>
KeyAppname == <<97, 112, 112, 110, 97, 109, 101>>
KeyExe == <<101, 120, 101>>
KeyStartDir == <<83, 116, 97, 114, 116, 68, 105, 114>>
KeyIcon == <<105, 99, 111, 110>>

\* b'\x00shortcuts\x00\x08\x08', the empty VDF structure
EmptyStore == <<0>> \o KeyShortcuts \o <<0, 8, 8>>

\* The five artwork variants in the order of the dictionary:
\* "p", "", "_hero", "_logo", "_icon"
Variants == 1..5

\* ------------------------------------------------------------------------
\* The environments the script is started in
\* ------------------------------------------------------------------------

\* "/home/deck" and "/home/eak"
HomeDeck == <<47, 104, 111, 109, 101, 47, 100, 101, 99, 107>>
HomeEak == <<47, 104, 111, 109, 101, 47, 101, 97, 107>>
Homes == {HomeDeck, HomeEak}

\* The numeric directory found under userdata: "1"
UserId == <<47, 49>>

\* What the launcher probe finds: the AppImage with its script, the
\* AppImage without the script, or no executable AppImage.
Launchers == {"script", "noscript", "none"}

\* ------------------------------------------------------------------------
\* Integer and byte helpers
\* ------------------------------------------------------------------------

IsDigit(b) == b >= 48 /\ b <= 57

RECURSIVE Xor(_, _)
Xor(a, b) ==
    IF a = 0 THEN b
    ELSE IF b = 0 THEN a
    ELSE (((a % 2) + (b % 2)) % 2) + 2 * Xor(a \div 2, b \div 2)

\* str(n).encode() for a non-negative machine integer
RECURSIVE StrInt(_)
StrInt(n) ==
    IF n < 10 THEN <<48 + n>>
    ELSE Append(StrInt(n \div 10), 48 + (n % 10))

\* str(v).encode() for a 32-bit value <<hi, lo>>: long division by ten
RECURSIVE StrU32(_)
StrU32(v) ==
    LET hi == v[1]
        lo == v[2]
        rest == (hi % 10) * 65536 + lo
        q == <<hi \div 10, rest \div 10>>
        r == rest % 10
    IN IF q = <<0, 0>> THEN <<48 + r>>
       ELSE Append(StrU32(q), 48 + r)

\* int(s) for a sequence of ASCII digits
RECURSIVE ParseInt(_)
ParseInt(s) ==
    IF Len(s) = 0 THEN 0
    ELSE 10 * ParseInt(SubSeq(s, 1, Len(s) - 1)) + (s[Len(s)] - 48)

\* struct.pack('<I', v)
PackLE(v) == <<v[2] % 256, v[2] \div 256, v[1] % 256, v[1] \div 256>>

\* ------------------------------------------------------------------------
\* zlib.crc32 (reflected CRC-32, polynomial 0xEDB88320)
\* ------------------------------------------------------------------------

CrcShift(c) ==
    LET sh == <<c[1] \div 2, (c[2] \div 2) + (c[1] % 2) * 32768>>
    IN IF c[2] % 2 = 1
       THEN <<Xor(sh[1], 60856), Xor(sh[2], 33568)>>
       ELSE sh

\* One input byte: xor it into the low byte, then eight shift steps.
CrcByte(c, b) ==
    CrcShift(CrcShift(CrcShift(CrcShift(
    CrcShift(CrcShift(CrcShift(CrcShift(<<c[1], Xor(c[2], b)>>))))))))

\* The register after the bytes k.. of s have been fed into register c.
\* (The test on c[1] only makes TLC evaluate c before it recurses.)
RECURSIVE CrcFold(_, _, _)
CrcFold(c, s, k) ==
    IF c[1] < 0 \/ k > Len(s) THEN c
    ELSE CrcFold(CrcByte(c, s[k]), s, k + 1)

crc32(s) ==
    LET c == CrcFold(<<65535, 65535>>, s, 1)
    IN <<Xor(c[1], 65535), Xor(c[2], 65535)>>

\* 0x80000000 | crc32((APPNAME + EXE).encode("utf-8")) & 0xFFFFFFFF
\* ("&" binds tighter than "|")
Hash(name, exe) ==
    LET c == crc32(name \o exe)
        m == <<c[1] % 65536, c[2] % 65536>>
    IN <<IF m[1] >= 32768 THEN m[1] ELSE m[1] + 32768, m[2]>>

\* The identifier each environment yields (Hash is evaluated once per
\* environment instead of once per step).
AppIdTable ==
    [h \in Homes |->
        [l \in {"script", "noscript"} |->
            Hash(APPNAME, h \o (IF l = "script" THEN PollyScript ELSE PrismScript))]]

\* ------------------------------------------------------------------------
\* State
\* ------------------------------------------------------------------------

VARIABLES
    env,        \* [home, launcher, user]: HOME, what the probe finds, whether
                \* userdata holds a numeric directory
    fileExists, \* whether shortcuts.vdf exists
    file,       \* the bytes of shortcuts.vdf
    assets,     \* for each variant the file at its destination path:
                \* "absent", "empty", "old" (there before any run), "new"
    pc,         \* position of each invocation
    data,       \* the bytes each invocation read
    index,      \* the index each invocation computed
    appid,      \* the identifier each invocation computed
    i,          \* position of each invocation in the artwork loop
    runs,       \* invocations started so far
    file0,      \* history: the store file at the start (fileExists0, file0)
    fileExists0,
    recs,       \* history: indices of the records of the store, in byte order
    log,        \* history: index of each completed insertion, in order
    overlap,    \* history: an invocation started while another was running
    crashed,    \* history: an invocation was interrupted while overwriting
    opens,      \* history: times the store file was opened for writing
    readAt,     \* history: value of opens when each invocation read the store
    ranAfter,   \* history: the invocations that had finished when this one started
    wrote,      \* history: the invocation completed its overwrite
    pre,        \* history: the variants present when each invocation started
    fetches,    \* history: urlopen calls of each invocation
    cached,     \* history: variants each invocation skipped
    saved,      \* history: variants each invocation downloaded and wrote
    failed,     \* history: variants whose download failed in each invocation
    after,      \* history: some invocation had finished when this one started
    afterClean, \* history: ... and had finished with no failed download
    finished,   \* history: some invocation reached the last line
    finishedClean

vars == <<env, fileExists, file, assets, pc, data, index, appid, i, runs,
          file0, fileExists0, recs, log, overlap, crashed, opens, readAt,
          ranAfter, wrote, pre, fetches, cached, saved, failed, after, afterClean,
          finished, finishedClean>>

\* ------------------------------------------------------------------------
\* Paths and the launcher probe
\* ------------------------------------------------------------------------

\* detect_launcher(): <<EXE, STARTDIR>>, or <<>> where the script exits
detect_launcher ==
    IF env.launcher = "script"
    THEN <<env.home \o PollyScript, env.home \o PollyDir>>
    ELSE IF env.launcher = "noscript"
    THEN <<env.home \o PrismScript, env.home \o PollyDir>>
    ELSE <<>>

EXE == detect_launcher[1]
STARTDIR == detect_launcher[2]

\* os.path.join(userdata, user_id, "config")
config_dir == env.home \o UserdataDir \o UserId \o ConfigName

\* ------------------------------------------------------------------------
\* The record codec
\* ------------------------------------------------------------------------

\* The position after the run of digits that starts at k.
DigitRunEnd(d, k) ==
    CHOOSE e \in k..(Len(d) + 1) :
        /\ \A j \in k..(e - 1) : IsDigit(d[j])
        /\ (e = Len(d) + 1 \/ ~IsDigit(d[e]))

\* The positions where rb'\x00(\d+)\x00' matches: a null, a maximal
\* non-empty run of digits, a null.
MatchStarts(d) ==
    {k \in 1..Len(d) :
        /\ d[k] = 0
        /\ k + 1 <= Len(d)
        /\ IsDigit(d[k + 1])
        /\ DigitRunEnd(d, k + 1) <= Len(d)
        /\ d[DigitRunEnd(d, k + 1)] = 0}

\* re.findall: leftmost matches that do not overlap, from position from on.
RECURSIVE findall(_, _, _)
findall(d, starts, from) ==
    LET c == {k \in starts : k >= from}
    IN IF c = {} THEN <<>>
       ELSE LET k == CHOOSE m \in c : \A n \in c : m <= n
                e == DigitRunEnd(d, k + 1)
            IN <<SubSeq(d, k + 1, e - 1)>> \o findall(d, starts, e + 1)

get_latest_index(d) ==
    LET matches == findall(d, MatchStarts(d), 1)
    IN IF Len(matches) > 0 THEN ParseInt(matches[Len(matches)]) ELSE -1

make_entry(idx, id, appname, exe, startdir) ==
    <<0>> \o StrInt(idx) \o <<0>>
    \o <<2>> \o KeyAppid \o <<0>> \o PackLE(id)
    \o <<1>> \o KeyAppname \o <<0>> \o appname \o <<0>>
    \o <<1>> \o KeyExe \o <<0>> \o exe \o <<0>>
    \o <<1>> \o KeyStartDir \o <<0>> \o startdir \o <<0>>
    \o <<1>> \o KeyIcon \o <<0>> \o config_dir \o GridName \o StrU32(id) \o IconName \o <<0>>
    \o <<8>>

\* ------------------------------------------------------------------------
\* The store mutation
\* ------------------------------------------------------------------------

\* A terminator test that looks at the last byte only.
EndsWithClose_LastByte(d) ==
    Len(d) >= 1 /\ d[Len(d)] = 8

\* data.endswith(b'\x08\x08')
EndsWithClose(d) ==
    Len(d) >= 2 /\ d[Len(d) - 1] = 8 /\ d[Len(d)] = 8

\* A splice that cuts one byte instead of two: data[:-1] + entry + 2 markers.
Splice_CutOne(d, entry) ==
    SubSeq(d, 1, Len(d) - 1) \o entry \o <<8, 8>>

\* data[:-2] + entry + b'\x08\x08'
Splice(d, entry) ==
    SubSeq(d, 1, Len(d) - 2) \o entry \o <<8, 8>>

\* A write that lands behind what the file holds (a file opened with "ab").
WriteBytes_Append(old, b) ==
    old \o b

\* f.write(b) on a file opened with "wb": the bytes go to offset 0 of what
\* the file holds since it was truncated.
WriteBytes(old, b) ==
    b \o SubSeq(old, Len(b) + 1, Len(old))

entry(p) == make_entry(index[p], appid[p], APPNAME, EXE, STARTDIR)

new_data(p) == Splice(data[p], entry(p))

\* ------------------------------------------------------------------------
\* Initial states
\* ------------------------------------------------------------------------

\* A record of another shortcut, as Steam stores it: index idx, identifier
\* 0x80000001, name "A".
OtherEntry(idx) ==
    <<0>> \o StrInt(idx) \o <<0>>
    \o <<2>> \o KeyAppid \o <<0>> \o <<1, 0, 0, 128>>
    \o <<1>> \o KeyAppname \o <<0>> \o <<65>> \o <<0>>
    \o <<8>>

RECURSIVE OtherEntries(_)
OtherEntries(idxs) ==
    IF Len(idxs) = 0 THEN <<>>
    ELSE OtherEntry(Head(idxs)) \o OtherEntries(Tail(idxs))

\* A well-formed store that holds records with the given indices.
StoreOf(idxs) == <<0>> \o KeyShortcuts \o <<0>> \o OtherEntries(idxs) \o <<8, 8>>

\* The record orders the initial stores are built from.
InitRecs == {<<>>, <<1, 0>>, <<0, 2, 5>>}

\* Store files that do not end with two close markers.
MalformedStores ==
    {<<>>, <<8>>, <<0>> \o KeyShortcuts \o <<0, 8>>, SubSeq(StoreOf(<<0>>), 1, 20)}

\* The sets of variants already present in the grid directory.
InitAssets == {{}, {3, 5}, Variants}

\* Invocations are started one after the other (all environments, stores and
\* grid directories) ...
SerialInit ==
    /\ env \in [home : Homes, launcher : Launchers, user : BOOLEAN, parallel : {FALSE}]
    /\ \/ /\ fileExists = FALSE
          /\ file = <<>>
          /\ recs = <<>>
       \/ /\ fileExists = TRUE
          /\ \E r \in InitRecs : file = StoreOf(r) /\ recs = r
       \/ /\ fileExists = TRUE
          /\ file \in MalformedStores
          /\ recs = <<>>
    /\ \E s \in InitAssets :
          /\ assets = [v \in Variants |-> IF v \in s THEN "old" ELSE "absent"]
          \* the grid directory that lacks all five variants goes with the
          \* missing or empty store of one environment
          /\ s = {} =>
                /\ env = [home |-> HomeDeck, launcher |-> "script", user |-> TRUE, parallel |-> FALSE]
                /\ file \in {<<>>, EmptyStore}
                /\ fileExists = (file # <<>>)

\* ... or may be started while another one runs (the environments in which
\* the script gets to the store, with at most one variant to download).
ParallelInit ==
    /\ env \in [home : Homes, launcher : {"script"}, user : {TRUE}, parallel : {TRUE}]
    /\ \/ /\ fileExists = FALSE
          /\ file = <<>>
          /\ recs = <<>>
       \/ /\ fileExists = TRUE
          /\ \E r \in {<<>>, <<1, 0>>} : file = StoreOf(r) /\ recs = r
    /\ \E s \in {Variants, Variants \ {5}} :
          assets = [v \in Variants |-> IF v \in s THEN "old" ELSE "absent"]

Init ==
    /\ SerialInit \/ ParallelInit
    /\ file0 = file
    /\ fileExists0 = fileExists
    /\ \E s \in InitAssets :
          assets = [v \in Variants |-> IF v \in s THEN "old" ELSE "absent"]
    /\ pc = [p \in Procs |-> "idle"]
    /\ data = [p \in Procs |-> <<>>]
    /\ index = [p \in Procs |-> 0]
    /\ appid = [p \in Procs |-> <<0, 0>>]
    /\ i = [p \in Procs |-> 0]
    /\ runs = 0
    /\ log = <<>>
    /\ overlap = FALSE
    /\ crashed = FALSE
    /\ opens = 0
    /\ readAt = [p \in Procs |-> -1]
    /\ ranAfter = [p \in Procs |-> {}]
    /\ wrote = [p \in Procs |-> FALSE]
    /\ pre = [p \in Procs |-> {}]
    /\ fetches = [p \in Procs |-> 0]
    /\ cached = [p \in Procs |-> {}]
    /\ saved = [p \in Procs |-> {}]
    /\ failed = [p \in Procs |-> {}]
    /\ after = [p \in Procs |-> FALSE]
    /\ afterClean = [p \in Procs |-> FALSE]
    /\ finished = FALSE
    /\ finishedClean = FALSE

\* ------------------------------------------------------------------------
\* Steps of one invocation
\* ------------------------------------------------------------------------

Running(p) == pc[p] \notin {"idle", "done", "exit1", "killed"}

\* An existence test on a path that is never written.
Exists_Never(v) == FALSE

\* os.path.exists(path) for the destination of variant v
Exists(v) == assets[v] # "absent"

storeVars == <<fileExists, file, recs, log, opens>>
assetVars == <<assets, fetches, cached, saved, failed>>
localVars == <<data, index, appid, readAt, wrote>>
constVars == <<env, file0, fileExists0>>
runVars == <<runs, overlap, pre, after, afterClean, ranAfter>>
endVars == <<finished, finishedClean>>

\* The script is started, in a free slot; slot 2 is used after slot 1, and
\* only where invocations may run at the same time.
Start(p) ==
    /\ ~Running(p)
    /\ runs < MaxRuns
    /\ p = 1 \/ (env.parallel /\ pc[1] # "idle")
    /\ env.parallel \/ \A q \in Procs : ~Running(q)
    /\ runs' = runs + 1
    /\ pc' = [pc EXCEPT ![p] = "detect"]
    /\ overlap' = (overlap \/ \E q \in Procs \ {p} : Running(q))
    /\ data' = [data EXCEPT ![p] = <<>>]
    /\ index' = [index EXCEPT ![p] = 0]
    /\ appid' = [appid EXCEPT ![p] = <<0, 0>>]
    /\ i' = [i EXCEPT ![p] = 0]
    /\ readAt' = [readAt EXCEPT ![p] = -1]
    /\ ranAfter' = [ranAfter EXCEPT ![p] = {q \in Procs \ {p} : pc[q] = "done"}]
    /\ wrote' = [wrote EXCEPT ![p] = FALSE]
    /\ pre' = [pre EXCEPT ![p] = {v \in Variants : Exists(v)}]
    /\ fetches' = [fetches EXCEPT ![p] = 0]
    /\ cached' = [cached EXCEPT ![p] = {}]
    /\ saved' = [saved EXCEPT ![p] = {}]
    /\ failed' = [failed EXCEPT ![p] = {}]
    /\ after' = [after EXCEPT ![p] = finished]
    /\ afterClean' = [afterClean EXCEPT ![p] = finishedClean]
    /\ UNCHANGED <<constVars, storeVars, assets, crashed, endVars>>

\* Lines 22-43: the launcher probe; exit(1) when PollyMC is not found.
DetectLauncher(p) ==
    /\ pc[p] = "detect"
    /\ pc' = [pc EXCEPT ![p] = IF detect_launcher = <<>> THEN "exit1" ELSE "locate"]
    /\ UNCHANGED <<constVars, storeVars, assetVars, localVars, runVars, endVars, i, crashed>>

\* Lines 55-61: the first numeric directory; exit(1) when there is none.
LocateUser(p) ==
    /\ pc[p] = "locate"
    /\ pc' = [pc EXCEPT ![p] = IF env.user THEN "ensure" ELSE "exit1"]
    /\ UNCHANGED <<constVars, storeVars, assetVars, localVars, runVars, endVars, i, crashed>>

\* Line 64: if not os.path.exists(shortcuts_file)
EnsureExists(p) ==
    /\ pc[p] = "ensure"
    /\ pc' = [pc EXCEPT ![p] = IF fileExists THEN "read" ELSE "create"]
    /\ UNCHANGED <<constVars, storeVars, assetVars, localVars, runVars, endVars, i, crashed>>

\* Line 65: open(shortcuts_file, "wb") creates or truncates the file.
CreateOpen(p) ==
    /\ pc[p] = "create"
    /\ fileExists' = TRUE
    /\ file' = <<>>
    /\ opens' = opens + 1
    /\ pc' = [pc EXCEPT ![p] = "initwrite"]
    /\ UNCHANGED <<constVars, recs, log, assetVars, localVars, runVars, endVars, i, crashed>>

\* Line 66: the empty VDF structure is written.
CreateWrite(p) ==
    /\ pc[p] = "initwrite"
    /\ file' = WriteBytes(file, EmptyStore)
    /\ pc' = [pc EXCEPT ![p] = "read"]
    /\ UNCHANGED <<constVars, fileExists, recs, log, opens, assetVars, localVars, runVars, endVars, i, crashed>>

\* Lines 68-111: read the file, compute the next index, the identifier and
\* the entry.
ReadStore(p) ==
    /\ pc[p] = "read"
    /\ fileExists
    /\ data' = [data EXCEPT ![p] = file]
    /\ index' = [index EXCEPT ![p] = get_latest_index(file) + 1]
    /\ appid' = [appid EXCEPT ![p] = AppIdTable[env.home][env.launcher]]
    /\ readAt' = [readAt EXCEPT ![p] = opens]
    /\ pc' = [pc EXCEPT ![p] = "insert"]
    /\ UNCHANGED <<constVars, storeVars, assetVars, wrote, runVars, endVars, i, crashed>>

\* Lines 114-116: the terminator is there; the file is opened with "wb".
InsertOpen(p) ==
    /\ pc[p] = "insert"
    /\ EndsWithClose(data[p])
    /\ fileExists' = TRUE
    /\ file' = <<>>
    /\ opens' = opens + 1
    /\ pc' = [pc EXCEPT ![p] = "write"]
    /\ UNCHANGED <<constVars, recs, log, assetVars, localVars, runVars, endVars, i, crashed>>

\* Lines 119-121: the terminator is missing; exit(1) without a write.
Malformed(p) ==
    /\ pc[p] = "insert"
    /\ ~EndsWithClose(data[p])
    /\ pc' = [pc EXCEPT ![p] = "exit1"]
    /\ UNCHANGED <<constVars, storeVars, assetVars, localVars, runVars, endVars, i, crashed>>

\* Lines 117-118: the new bytes are written and the file is closed.
InsertWrite(p) ==
    /\ pc[p] = "write"
    /\ file' = WriteBytes(file, new_data(p))
    /\ recs' = Append(recs, index[p])
    /\ log' = Append(log, index[p])
    /\ wrote' = [wrote EXCEPT ![p] = TRUE]
    /\ pc' = [pc EXCEPT ![p] = "grid"]
    /\ UNCHANGED <<constVars, fileExists, opens, assetVars, data, index, appid, readAt, runVars, endVars, i, crashed>>

\* The lengths at which an interrupted write of b can stop.
TornLengths(b) == {0, Len(b) \div 2, Len(b) - 1}

\* The invocation is interrupted (killed, disk full, power loss) between
\* the open of line 116 and the end of the write of line 117.
InsertTorn(p) ==
    /\ pc[p] = "write"
    /\ \E n \in TornLengths(new_data(p)) :
          file' = WriteBytes(file, SubSeq(new_data(p), 1, n))
    /\ crashed' = TRUE
    /\ pc' = [pc EXCEPT ![p] = "killed"]
    /\ UNCHANGED <<constVars, fileExists, recs, log, opens, assetVars, localVars, runVars, endVars, i>>

\* Lines 124-125: os.makedirs(grid_dir, exist_ok=True); the loop begins.
MakeGridDir(p) ==
    /\ pc[p] = "grid"
    /\ i' = [i EXCEPT ![p] = 1]
    /\ pc' = [pc EXCEPT ![p] = "asset"]
    /\ UNCHANGED <<constVars, storeVars, assetVars, localVars, runVars, endVars, crashed>>

\* Lines 130-132: the destination exists; the variant is skipped.
AssetSkip(p) ==
    /\ pc[p] = "asset"
    /\ i[p] \in Variants
    /\ Exists(i[p])
    /\ cached' = [cached EXCEPT ![p] = @ \cup {i[p]}]
    /\ i' = [i EXCEPT ![p] = @ + 1]
    /\ UNCHANGED <<constVars, storeVars, assets, fetches, saved, failed, localVars, runVars, endVars, pc, crashed>>

\* Lines 135-136: urlopen answers.
AssetUrlOk(p) ==
    /\ pc[p] = "asset"
    /\ i[p] \in Variants
    /\ ~Exists(i[p])
    /\ fetches' = [fetches EXCEPT ![p] = @ + 1]
    /\ pc' = [pc EXCEPT ![p] = "asset_open"]
    /\ UNCHANGED <<constVars, storeVars, assets, cached, saved, failed, localVars, runVars, endVars, i, crashed>>

\* A failed urlopen that is not caught: the script dies with exit code 1.
AssetUrlFail_Uncaught(p) ==
    /\ pc[p] = "asset"
    /\ i[p] \in Variants
    /\ ~Exists(i[p])
    /\ fetches' = [fetches EXCEPT ![p] = @ + 1]
    /\ failed' = [failed EXCEPT ![p] = @ \cup {i[p]}]
    /\ pc' = [pc EXCEPT ![p] = "exit1"]
    /\ UNCHANGED <<constVars, storeVars, assets, cached, saved, localVars, runVars, endVars, i, crashed>>

\* Lines 135-136, 139-140: urlopen raises (network error, HTTP error); the
\* handler prints and the loop goes on.
AssetUrlFail(p) ==
    /\ pc[p] = "asset"
    /\ i[p] \in Variants
    /\ ~Exists(i[p])
    /\ fetches' = [fetches EXCEPT ![p] = @ + 1]
    /\ failed' = [failed EXCEPT ![p] = @ \cup {i[p]}]
    /\ i' = [i EXCEPT ![p] = @ + 1]
    /\ UNCHANGED <<constVars, storeVars, assets, cached, saved, localVars, runVars, endVars, pc, crashed>>

\* Line 136: open(path, "wb") creates or truncates the destination.
AssetOpenOut(p) ==
    /\ pc[p] = "asset_open"
    /\ assets' = [assets EXCEPT ![i[p]] = "empty"]
    /\ pc' = [pc EXCEPT ![p] = "asset_read"]
    /\ UNCHANGED <<constVars, storeVars, fetches, cached, saved, failed, localVars, runVars, endVars, i, crashed>>

\* Lines 137-138: resp.read() returns the body and it is written.
AssetReadOk(p) ==
    /\ pc[p] = "asset_read"
    /\ assets' = [assets EXCEPT ![i[p]] = "new"]
    /\ saved' = [saved EXCEPT ![p] = @ \cup {i[p]}]
    /\ i' = [i EXCEPT ![p] = @ + 1]
    /\ pc' = [pc EXCEPT ![p] = "asset"]
    /\ UNCHANGED <<constVars, storeVars, fetches, cached, failed, localVars, runVars, endVars, crashed>>

\* Lines 137, 139-140: resp.read() raises; the with statement closes the
\* destination, which stays as line 136 left it; the loop goes on.
AssetReadFail(p) ==
    /\ pc[p] = "asset_read"
    /\ failed' = [failed EXCEPT ![p] = @ \cup {i[p]}]
    /\ i' = [i EXCEPT ![p] = @ + 1]
    /\ pc' = [pc EXCEPT ![p] = "asset"]
    /\ UNCHANGED <<constVars, storeVars, assets, fetches, cached, saved, localVars, runVars, endVars, crashed>>

\* Line 142: the loop is over; the script ends with exit code 0.
Finish(p) ==
    /\ pc[p] = "asset"
    /\ i[p] \notin Variants
    /\ pc' = [pc EXCEPT ![p] = "done"]
    /\ finished' = TRUE
    /\ finishedClean' = (finishedClean \/ failed[p] = {})
    /\ UNCHANGED <<constVars, storeVars, assetVars, localVars, runVars, i, crashed>>

\* The exit code of an invocation that has ended.
ExitCode(p) == IF pc[p] = "done" THEN 0 ELSE 1

Next ==
    \E p \in Procs :
        \/ Start(p)
        \/ DetectLauncher(p)
        \/ LocateUser(p)
        \/ EnsureExists(p)
        \/ CreateOpen(p)
        \/ CreateWrite(p)
        \/ ReadStore(p)
        \/ InsertOpen(p)
        \/ Malformed(p)
        \/ InsertWrite(p)
        \/ InsertTorn(p)
        \/ MakeGridDir(p)
        \/ AssetSkip(p)
        \/ AssetUrlOk(p)
        \/ AssetUrlFail(p)
        \/ AssetOpenOut(p)
        \/ AssetReadOk(p)
        \/ AssetReadFail(p)
        \/ Finish(p)

Spec == Init /\ [][Next]_vars

\* ------------------------------------------------------------------------
\* Vocabulary of the properties
\* ------------------------------------------------------------------------

\* The last two bytes of d are not both 0x08 (d may be shorter than two).
LacksTerminator(d) ==
    Len(d) < 2 \/ SubSeq(d, Len(d) - 1, Len(d)) # <<8, 8>>

\* The invocation has read the store in its current run.
HasRead(p) == readAt[p] >= 0

\* Since p read the store, the store was opened for writing by p alone, once,
\* and no invocation has run at the same time as another.
OnlyOwnOpen(p) == HasRead(p) /\ opens = readAt[p] + 1 /\ ~overlap

\* The greatest index among the records of the store, -1 when there are none.
MaxRec ==
    IF Len(recs) = 0 THEN -1
    ELSE CHOOSE m \in {recs[k] : k \in 1..Len(recs)} :
            \A k \in 1..Len(recs) : recs[k] <= m

\* The store that contains only the record p encoded.
StoreWithOnly(p) == <<0>> \o KeyShortcuts \o <<0>> \o entry(p) \o <<8, 8>>

\* The run started from the empty store (there or created by line 66).
FromEmptyStore == ~fileExists0 \/ file0 = EmptyStore

\* ------------------------------------------------------------------------
\* Properties
\* ------------------------------------------------------------------------

\* C1: when the store file does not end with 0x08 0x08 (files shorter than
\* two bytes included) the insertion ends with a non-zero exit, writes
\* nothing, leaves the file as it was and fetches no asset.
C1_MalformedStoreUntouched ==
    /\ \A p \in Procs :
          (HasRead(p) /\ LacksTerminator(data[p])) =>
             /\ pc[p] \in {"insert", "exit1"}
             /\ (pc[p] = "exit1" => ExitCode(p) # 0)
             /\ ~wrote[p]
             /\ fetches[p] = 0
             /\ i[p] = 0
    /\ (fileExists0 /\ LacksTerminator(file0)) =>
          /\ fileExists /\ file = file0
          /\ opens = 0
          /\ \A p \in Procs : fetches[p] = 0 /\ pc[p] # "done"
          /\ \A v \in Variants : assets[v] \in {"old", "absent"}

\* C1 witness: a run has read a one-byte store and has ended with exit(1).
C1_Witness ==
    \E p \in Procs :
        /\ pc[p] = "exit1"
        /\ HasRead(p)
        /\ data[p] = <<8>>
        /\ file = <<8>>

\* C2 (as claimed): while the overwrite is under way or after it was
\* interrupted, the store file holds the complete old or the complete new
\* content.
C2_AtomicOverwrite ==
    \A p \in Procs :
        (pc[p] \in {"write", "killed"} /\ OnlyOwnOpen(p)) =>
            (file = data[p] \/ file = new_data(p))

\* C3 (as claimed): from the empty store, the k-th successful run of a
\* sequence of runs is assigned index k - 1.
C3_SequentialIndices ==
    (FromEmptyStore /\ ~overlap /\ ~crashed) =>
        \A k \in 1..Len(log) : log[k] = k - 1

\* C4 (as claimed): the new index is the greatest index of the records of
\* the store plus one (0 for no records), so it is not the index of any
\* record already there.
C4_MaxPlusOne ==
    \A p \in Procs :
        (pc[p] = "insert" /\ ~LacksTerminator(data[p]) /\ ~overlap /\ ~crashed) =>
            /\ index[p] = MaxRec + 1
            /\ \A k \in 1..Len(recs) : recs[k] # index[p]

\* C5 (as claimed): the scan over the store that contains only the record
\* make_entry(i, ...) returns i.
C5_RoundTrip ==
    \A p \in Procs :
        (HasRead(p) /\ ~LacksTerminator(data[p])) =>
            get_latest_index(StoreWithOnly(p)) = index[p]

\* C6 (as claimed): an insertion keeps all bytes of the previous store but
\* its last two as a prefix, puts the encoded record right after them, ends
\* the store with 0x08 0x08, and gives it the old length minus 2 plus the
\* length of the encoded record.
C6_SpliceAsClaimed ==
    \A p \in Procs :
        (wrote[p] /\ OnlyOwnOpen(p)) =>
            LET old == data[p]
                rec == entry(p)
            IN /\ SubSeq(file, 1, Len(old) - 2) = SubSeq(old, 1, Len(old) - 2)
               /\ SubSeq(file, Len(old) - 1, Len(old) - 2 + Len(rec)) = rec
               /\ ~LacksTerminator(file)
               /\ Len(file) = Len(old) - 2 + Len(rec)

\* C6 (amended): an insertion keeps all bytes of the previous store but its
\* last two as a prefix, puts the encoded record right after them and the
\* two bytes 0x08 0x08 after the record, so the new length is the old length
\* plus the length of the encoded record; between insertions that ran one
\* after the other the store ends with 0x08 0x08.
C6_Splice ==
    /\ \A p \in Procs :
          (wrote[p] /\ OnlyOwnOpen(p)) =>
             LET old == data[p]
                 rec == entry(p)
             IN /\ SubSeq(file, 1, Len(old) - 2) = SubSeq(old, 1, Len(old) - 2)
                /\ SubSeq(file, Len(old) - 1, Len(old) - 2 + Len(rec)) = rec
                /\ SubSeq(file, Len(old) - 1 + Len(rec), Len(file)) = <<8, 8>>
                /\ Len(file) = Len(old) + Len(rec)
    /\ (fileExists0 /\ ~LacksTerminator(file0) /\ ~overlap /\ ~crashed
            /\ \A p \in Procs : pc[p] # "write") =>
          ~LacksTerminator(file)

\* C6 witness: a second insertion in a row has been written.
C6_Witness ==
    \E p \in Procs :
        /\ wrote[p]
        /\ OnlyOwnOpen(p)
        /\ Len(log) = 2
        /\ Len(file) = Len(data[p]) + Len(entry(p))

C8_FailureIsolation ==
    \A p \in Procs :
        /\ (wrote[p] /\ ~Running(p)) =>
              /\ pc[p] = "done"
              /\ ExitCode(p) = 0
              /\ cached[p] \cup saved[p] \cup failed[p] = Variants
              /\ \A v \in Variants \ failed[p] :
                    \/ v \in cached[p]
                    \/ v \in saved[p] /\ Exists(v)
        /\ (wrote[p] /\ OnlyOwnOpen(p)) => file = new_data(p)

\* C8 witness: a run has finished in which one fetch failed and a later
\* variant was downloaded, and the store holds what the run wrote.
C8_Witness ==
    \E p \in Procs :
        /\ pc[p] = "done"
        /\ OnlyOwnOpen(p)
        /\ \E v \in failed[p] : \E w \in saved[p] : v < w

\* C9 (as claimed): a run never opens a destination that existed before
\* it; a destination that did not exist before the run exists after it only
\* if its download succeeded, and then holds the fetched bytes; a failed
\* fetch leaves no file at the destination.
C9_AssetLifecycle ==
    \A p \in Procs :
        (pc[p] = "done" /\ ~overlap) =>
            \A v \in Variants :
                /\ v \in pre[p] => v \in cached[p]
                /\ (v \notin pre[p] /\ Exists(v)) =>
                      (v \in saved[p] /\ assets[v] = "new")
                /\ v \in failed[p] => ~Exists(v)

\* C10: two invocations that both read the store before either opens it for
\* writing get the same index and both go on as successful, and the store
\* then holds one new record only; two invocations of which the second read
\* started after the first had finished leave both records in the store.
C10_LostUpdate ==
    \A p \in Procs : \A q \in Procs \ {p} :
        (wrote[p] /\ wrote[q] /\ opens = readAt[p] + 2) =>
            /\ (readAt[q] = readAt[p] /\ data[q] = data[p]) =>
                  /\ index[p] = index[q]
                  /\ pc[p] \notin {"exit1", "killed"}
                  /\ pc[q] \notin {"exit1", "killed"}
                  /\ file = SubSeq(data[p], 1, Len(data[p]) - 2) \o entry(q) \o <<8, 8>>
                  /\ file = SubSeq(data[p], 1, Len(data[p]) - 2) \o entry(p) \o <<8, 8>>
            /\ (readAt[q] = readAt[p] + 1 /\ p \in ranAfter[q]) =>
                  file = SubSeq(data[p], 1, Len(data[p]) - 2)
                            \o entry(p) \o entry(q) \o <<8, 8>>

\* C10 witness: both invocations read the same store before either opened
\* it, and both have written.
C10_Witness ==
    \E p \in Procs : \E q \in Procs \ {p} :
        /\ wrote[p] /\ wrote[q]
        /\ readAt[q] = readAt[p]
        /\ data[q] = data[p]
        /\ opens = readAt[p] + 2
        /\ Len(log) = 2
        /\ Len(file) = Len(data[p]) + Len(entry(p))

====
